---- MODULE Spec2Model ----
(***************************************************************************)
(* Model of SimulationRunner.py: the Simulation orchestrator, its three    *)
(* run_* operations, plot() and reset(), and the SimulationResult value.   *)
(*                                                                         *)
(* Numbers.  Times are integers in microseconds (0.005 s = 5000).  Real    *)
(* values (populations, standard deviations) are exact rationals           *)
(* [n |-> numerator, d |-> denominator] in lowest terms with d > 0, and    *)
(* [n |-> 0, d |-> 0] stands for NaN.  Values scaled by a power of pi are  *)
(* kept symbolically as [q |-> rational, pi |-> exponent].                 *)
(* The three solvers are external: a call to one either raises or returns  *)
(* a tuple of series drawn from a bounded set.                             *)
(***************************************************************************)
EXTENDS Integers, Sequences, FiniteSets, TLC

VARIABLES params, pulses, number, verbose,
          fock, mean, cheby,
          fock_res, mean_res, cheby_res,
          run_log, last

vars == <<params, pulses, number, verbose, fock, mean, cheby,
          fock_res, mean_res, cheby_res, run_log, last>>

(***************************************************************************)
(* Bounds of the model.                                                    *)
(***************************************************************************)
\* longest series a solver returns in Spec
MaxLen == 2
\* longest series the Fock solver returns in SpecFock
MaxLenFock == 3
\* largest total_time, in milliseconds, in SpecCheby
MaxTime == 30

(***************************************************************************)
(* Exact rational arithmetic.                                              *)
(***************************************************************************)
Abs(x) == IF x < 0 THEN -x ELSE x

RECURSIVE GCD(_, _)
GCD(a, b) == IF b = 0 THEN a ELSE GCD(b, a % b)

NaN == [n |-> 0, d |-> 0]

IsNaN(x) == x.d = 0

\* the rational num/den (den # 0) in lowest terms, denominator positive
Rat(num, den) ==
    LET g == GCD(Abs(num), Abs(den))
        s == IF den < 0 THEN -1 ELSE 1
    IN  [n |-> s * (num \div g), d |-> s * (den \div g)]

RatInt(k) == [n |-> k, d |-> 1]

RatAdd(x, y) ==
    IF IsNaN(x) \/ IsNaN(y) THEN NaN ELSE Rat(x.n * y.d + y.n * x.d, x.d * y.d)

RatSub(x, y) ==
    IF IsNaN(x) \/ IsNaN(y) THEN NaN ELSE Rat(x.n * y.d - y.n * x.d, x.d * y.d)

RatMul(x, y) ==
    IF IsNaN(x) \/ IsNaN(y) THEN NaN ELSE Rat(x.n * y.n, x.d * y.d)

\* numpy true division; 0/0 is NaN (divisors of the model are never a nonzero/0)
RatDiv(x, y) ==
    IF IsNaN(x) \/ IsNaN(y) \/ y.n = 0 THEN NaN ELSE Rat(x.n * y.d, x.d * y.n)

RECURSIVE RootFrom(_, _)
RootFrom(k, r) == IF r * r >= k THEN r ELSE RootFrom(k, r + 1)

\* the integer square root of a perfect square k >= 0
ISqrt(k) == RootFrom(k, 0)

\* np.sqrt: NaN for a negative argument (a warning, no exception); the model
\* takes roots of rationals whose numerator and denominator are squares
np_sqrt(x) ==
    IF IsNaN(x) \/ x.n < 0 THEN NaN ELSE [n |-> ISqrt(x.n), d |-> ISqrt(x.d)]

\* int(a/b) for integers a, b > 0 or a < 0: truncation toward zero
int_div(a, b) == IF a >= 0 THEN a \div b ELSE -((-a) \div b)

\* k * pi^e, kept symbolic
TimesPi(q, e) == [q |-> q, pi |-> e]

(***************************************************************************)
(* color_text: colorama is never imported, the NameError is swallowed by   *)
(* the bare except and the text comes back unchanged.                      *)
(***************************************************************************)
color_text(text, color) == text

(***************************************************************************)
(* SimulationResult.  `unit` is a ghost field (not in the code): the unit  *)
(* convention the stored series are in, obtained from the solver's native  *)
(* convention by the scalings the code applies.                            *)
(***************************************************************************)
SimulationResult(time, rho_0, std, color, name, unit) ==
    [kind |-> "SimulationResult", t |-> time, rho |-> rho_0, std |-> std,
     name |-> name, col |-> color, unit |-> unit]

\* the attribute does not exist before the first run
Unset == [kind |-> "unset"]

\* the raw 4-tuple mean_sim returns, as the chained assignment stores it
RawTuple(out) == [kind |-> "tuple", t |-> out.time, rho |-> out.mean,
                  std |-> out.std, mw |-> out.mw]

\* SimulationResult.plot(ax): the band and the line drawn on the axis
ResultPlot(r) ==
    [band_lo |-> [i \in 1..Len(r.rho) |-> RatSub(r.rho[i], r.std[i])],
     band_hi |-> [i \in 1..Len(r.rho) |-> RatAdd(r.rho[i], r.std[i])],
     alpha   |-> "0.2",
     t       |-> r.t,
     line    |-> r.rho,
     label   |-> r.name,
     color   |-> r.col,
     unit    |-> r.unit]

\* the effect of dividing / multiplying a quantity in a unit convention by N
DivideByN(unit) == IF unit = "count" THEN "frac" ELSE "over_N"

MultiplyByN(unit) == IF unit = "frac" THEN "count" ELSE "times_N"

(***************************************************************************)
(* The object and its constructor.                                         *)
(***************************************************************************)
DefaultParams ==
    [N |-> 5000, c |-> 24, n_samps |-> 200, magnetic_field |-> 27,
     atom_range |-> 20, mag_range |-> 20, spinor_phase |-> 0, n_0 |-> 4998,
     time_step |-> 1, tauB |-> 1000, total_time |-> 10000,
     mag_time |-> 15000, mag |-> 0]

Self == [params |-> params, pulses |-> pulses, number |-> number,
         verbose |-> verbose, fock |-> fock, mean |-> mean, cheby |-> cheby,
         fock_res |-> fock_res, mean_res |-> mean_res,
         cheby_res |-> cheby_res]

NoCall == [fn |-> "none"]

NoFig == [created |-> FALSE, drawn |-> <<>>, xlabel |-> "", ylabel |-> "",
          legend |-> FALSE]

\* what the caller observes of one operation
Effect(op, raised, call, ret, fig, stdout) ==
    [op |-> op, raised |-> raised, call |-> call, ret |-> ret,
     fig |-> fig, stdout |-> stdout]

NoRet == [raised |-> FALSE]

Simulation(p, pls, num, verb) ==
    [params |-> p, pulses |-> pls, number |-> num, verbose |-> verb,
     fock |-> FALSE, mean |-> FALSE, cheby |-> FALSE,
     fock_res |-> Unset, mean_res |-> Unset, cheby_res |-> Unset]

\* the fields of the object become the state
Commit(s) ==
    /\ params' = s.params /\ pulses' = s.pulses /\ number' = s.number
    /\ verbose' = s.verbose
    /\ fock' = s.fock /\ mean' = s.mean /\ cheby' = s.cheby
    /\ fock_res' = s.fock_res /\ mean_res' = s.mean_res
    /\ cheby_res' = s.cheby_res

(***************************************************************************)
(* run_fock.  `out` is what fock_sim does: it raises, or returns           *)
(* (time, n0, n0var) with n0 and n0var integer series.                     *)
(***************************************************************************)
FockCall(self) ==
    [fn |-> "fock_sim",
     total_time |-> self.params.total_time,
     dt |-> self.params.time_step,
     mag_time |-> self.params.mag_time,
     tauB |-> self.params.tauB,
     N |-> self.params.N,
     c |-> TimesPi(RatInt(self.params.c * 4), 1),
     bfield |-> self.params.magnetic_field]

\* a slip: only the central value is divided by N
FockResult_std_unscaled(self, out) ==
    LET N    == RatInt(self.params.N)
        std  == [i \in 1..Len(out.n0var) |-> np_sqrt(RatInt(out.n0var[i]))]
        n0   == IF ~self.number
                THEN [i \in 1..Len(out.n0) |-> RatDiv(RatInt(out.n0[i]), N)]
                ELSE [i \in 1..Len(out.n0) |-> RatInt(out.n0[i])]
        unit == IF ~self.number THEN DivideByN("count") ELSE "count"
    IN  SimulationResult(out.time, n0, std, "red", "Fock", unit)

\* std = sqrt(n0var); both series divided by N unless self.number
FockResult(self, out) ==
    LET N    == RatInt(self.params.N)
        std0 == [i \in 1..Len(out.n0var) |-> np_sqrt(RatInt(out.n0var[i]))]
        n0   == IF ~self.number
                THEN [i \in 1..Len(out.n0) |-> RatDiv(RatInt(out.n0[i]), N)]
                ELSE [i \in 1..Len(out.n0) |-> RatInt(out.n0[i])]
        std  == IF ~self.number
                THEN [i \in 1..Len(std0) |-> RatDiv(std0[i], N)]
                ELSE std0
        unit == IF ~self.number THEN DivideByN("count") ELSE "count"
    IN  SimulationResult(out.time, n0, std, "red", "Fock", unit)

FockPre(self) ==
    IF self.verbose
    THEN <<color_text("Running Fock State Simulation", "CYAN")>> ELSE <<>>

FockPost(self) ==
    IF self.verbose
    THEN <<color_text("Finished Fock State Simulation", "RED"), "Execution Time">>
    ELSE <<>>

\* a slip: the flag is set before the solver is called
run_fock_flag_first(self, out) ==
    LET s0 == [self EXCEPT !.fock = TRUE]
    IN  IF out.raised
        THEN [self |-> s0,
              eff |-> Effect("run_fock", "ComputationError", FockCall(self), out,
                             NoFig, FockPre(self))]
        ELSE [self |-> [s0 EXCEPT !.fock_res = FockResult(self, out)],
              eff |-> Effect("run_fock", "none", FockCall(self), out, NoFig,
                             FockPre(self) \o FockPost(self))]

run_fock(self, out) ==
    IF out.raised
    THEN [self |-> self,
          eff |-> Effect("run_fock", "ComputationError", FockCall(self), out,
                         NoFig, FockPre(self))]
    ELSE
      LET s1 == [self EXCEPT !.fock_res = FockResult(self, out)]
          s2 == [s1 EXCEPT !.fock = TRUE]
      IN  [self |-> s2,
           eff |-> Effect("run_fock", "none", FockCall(self), out, NoFig,
                          FockPre(self) \o FockPost(self))]

(***************************************************************************)
(* run_mean.  mean_sim raises, or returns (time, mean, std, mw) with mean  *)
(* and std rational series in fraction units.  The chained assignment      *)
(* unpacks the tuple and then stores the raw tuple in self.mean_res; the   *)
(* slot is overwritten by the SimulationResult before the flag is set.     *)
(***************************************************************************)
MeanCall(self) ==
    [fn |-> "mean_sim",
     N |-> self.params.N,
     n_samps |-> self.params.n_samps,
     c |-> TimesPi(RatInt(self.params.c * 4), 1),
     total_time |-> self.params.total_time,
     bfield |-> self.params.magnetic_field,
     pulses |-> self.pulses,
     qu0 |-> 0]

\* a slip: the SimulationResult is never stored, the slot keeps the raw tuple
MeanResult_raw(self, out) == RawTuple(out)

\* both series multiplied by N when self.number
MeanResult(self, out) ==
    LET N    == RatInt(self.params.N)
        m    == IF self.number
                THEN [i \in 1..Len(out.mean) |-> RatMul(out.mean[i], N)]
                ELSE out.mean
        std  == IF self.number
                THEN [i \in 1..Len(out.std) |-> RatMul(out.std[i], N)]
                ELSE out.std
        unit == IF self.number THEN MultiplyByN("frac") ELSE "frac"
    IN  SimulationResult(out.time, m, std, "blue", "Mean", unit)

MeanPre(self) ==
    IF self.verbose
    THEN <<color_text("Running Mean Field Simulation", "YELLOW")>> ELSE <<>>

MeanPost(self) ==
    IF self.verbose
    THEN <<color_text("Finished Mean Field Simulation", "RED"), "Execution Time">>
    ELSE <<>>

\* a slip: the flag of another backend is set
run_mean_wrong_flag(self, out) ==
    IF out.raised
    THEN [self |-> self,
          eff |-> Effect("run_mean", "ComputationError", MeanCall(self), out,
                         NoFig, MeanPre(self))]
    ELSE
      LET s0 == [self EXCEPT !.mean_res = RawTuple(out)]
          s1 == [s0 EXCEPT !.mean_res = MeanResult(self, out)]
          s2 == [s1 EXCEPT !.fock = TRUE]
      IN  [self |-> s2,
           eff |-> Effect("run_mean", "none", MeanCall(self), out, NoFig,
                          MeanPre(self) \o MeanPost(self))]

run_mean(self, out) ==
    IF out.raised
    THEN [self |-> self,
          eff |-> Effect("run_mean", "ComputationError", MeanCall(self), out,
                         NoFig, MeanPre(self))]
    ELSE
      LET s0 == [self EXCEPT !.mean_res = RawTuple(out)]
          s1 == [s0 EXCEPT !.mean_res = MeanResult(self, out)]
          s2 == [s1 EXCEPT !.mean = TRUE]
      IN  [self |-> s2,
           eff |-> Effect("run_mean", "none", MeanCall(self), out, NoFig,
                          MeanPre(self) \o MeanPost(self))]

(***************************************************************************)
(* run_cheby.  The schedule locals are bound only when self.pulses == [];  *)
(* otherwise evaluating the call's arguments raises UnboundLocalError      *)
(* before cheby_sim is entered.  cheby_sim raises, or returns              *)
(* (sum_of_means, sum_of_meansq, norm, time), integer series, norm > 0.    *)
(***************************************************************************)
dt == 5000

\* a slip: one step too many
Schedule_extra_step(self) ==
    [c       |-> <<self.params.c>>,
     emw     |-> <<TimesPi(Rat(277, 1000), -1)>>,
     n_step  |-> <<int_div(self.params.total_time, dt) + 1>>,
     ndiv    |-> 1,
     delta_t |-> <<self.params.total_time>>]

\* the default schedule of the branch self.pulses == []
Schedule(self) ==
    [c       |-> <<self.params.c>>,
     emw     |-> <<TimesPi(Rat(277, 1000), -1)>>,
     n_step  |-> <<int_div(self.params.total_time, dt)>>,
     ndiv    |-> 1,
     delta_t |-> <<self.params.total_time>>]

ChebyCall(self, sched) ==
    [fn |-> "cheby_sim",
     bfield |-> self.params.magnetic_field * 100,
     N |-> self.params.N,
     mag |-> self.params.mag,
     mag_range |-> self.params.mag_range,
     atom_range |-> self.params.atom_range,
     spinor_phase |-> self.params.spinor_phase,
     n_0 |-> self.params.n_0,
     ndiv |-> sched.ndiv,
     delta_t |-> sched.delta_t,
     c |-> sched.c,
     emw |-> sched.emw,
     n_step |-> sched.n_step]

\* mean = sum_of_means/norm, std = sqrt(sum_of_meansq/norm - mean*mean); the
\* result is not rescaled, whatever self.number
ChebyResult(out) ==
    LET m   == [i \in 1..Len(out.sum_of_means) |->
                  RatDiv(RatInt(out.sum_of_means[i]), RatInt(out.norm[i]))]
        msq == [i \in 1..Len(out.sum_of_meansq) |->
                  RatDiv(RatInt(out.sum_of_meansq[i]), RatInt(out.norm[i]))]
        std == [i \in 1..Len(m) |-> np_sqrt(RatSub(msq[i], RatMul(m[i], m[i])))]
    IN  SimulationResult(out.time, m, std, "green", "Coherent", "native")

ChebyPre(self) ==
    IF self.verbose
    THEN <<color_text("Running Coherent Simulation", "MAGENTA")>> ELSE <<>>

ChebyPost(self) ==
    IF self.verbose
    THEN <<color_text("Finished Coherent Simulation", "RED"), "Execution Time">>
    ELSE <<>>

run_cheby(self, out) ==
    IF self.pulses # <<>>
    THEN [self |-> self,
          eff |-> Effect("run_cheby", "UnboundLocalError", NoCall, NoRet, NoFig,
                         ChebyPre(self))]
    ELSE
      LET call == ChebyCall(self, Schedule(self))
      IN  IF out.raised
          THEN [self |-> self,
                eff |-> Effect("run_cheby", "ComputationError", call, out, NoFig,
                               ChebyPre(self))]
          ELSE
            LET s1 == [self EXCEPT !.cheby = TRUE]
                s2 == [s1 EXCEPT !.cheby_res = ChebyResult(out)]
            IN  [self |-> s2,
                 eff |-> Effect("run_cheby", "none", call, out, NoFig,
                                ChebyPre(self) \o ChebyPost(self))]

(***************************************************************************)
(* plot, _has_result, reset.                                               *)
(***************************************************************************)
\* the method _has_result, when it is called
has_result(self) == IF self.fock \/ self.mean \/ self.cheby THEN TRUE ELSE FALSE

\* the expression `self._has_result` of plot(): the bound method object itself,
\* never called, and a method object is truthy whatever the flags
has_result_attr(self) == TRUE

\* a slip: the slots are visited in another order
DrawOrder_mean_first(self) ==
    <<[on |-> self.mean, res |-> self.mean_res],
      [on |-> self.fock, res |-> self.fock_res],
      [on |-> self.cheby, res |-> self.cheby_res]>>

\* the three `if self.<flag>: self.<flag>_res.plot(ax)` in program order
DrawOrder(self) ==
    <<[on |-> self.fock, res |-> self.fock_res],
      [on |-> self.mean, res |-> self.mean_res],
      [on |-> self.cheby, res |-> self.cheby_res]>>

plot(self) ==
    IF ~has_result_attr(self)
    THEN [self |-> self,
          eff |-> Effect("plot", "none", NoCall, NoRet, NoFig,
                         <<"Cannot plot with no simulation">>)]
    ELSE
      LET flagged == SelectSeq(DrawOrder(self), LAMBDA x : x.on)
          bad     == \E i \in 1..Len(flagged) :
                        flagged[i].res.kind # "SimulationResult"
          fig     == [created |-> TRUE,
                      drawn   |-> [i \in 1..Len(flagged) |-> ResultPlot(flagged[i].res)],
                      xlabel  |-> "t (s)",
                      ylabel  |-> IF self.number THEN "N_{m_F=0}" ELSE "rho_0",
                      legend  |-> TRUE]
      IN  IF bad
          THEN [self |-> self,
                eff |-> Effect("plot", "AttributeError", NoCall, NoRet,
                               [NoFig EXCEPT !.created = TRUE], <<>>)]
          ELSE [self |-> self,
                eff |-> Effect("plot", "none", NoCall, NoRet, fig, <<>>)]

\* a slip: the retained results are dropped with the flags
reset_drops_results(self) ==
    [self |-> [self EXCEPT !.cheby = FALSE, !.mean = FALSE, !.fock = FALSE,
                           !.fock_res = Unset, !.mean_res = Unset,
                           !.cheby_res = Unset],
     eff |-> Effect("reset", "none", NoCall, NoRet, NoFig, <<>>)]

reset(self) ==
    LET s1 == [self EXCEPT !.cheby = FALSE]
        s2 == [s1 EXCEPT !.mean = FALSE]
        s3 == [s2 EXCEPT !.fock = FALSE]
    IN  [self |-> s3, eff |-> Effect("reset", "none", NoCall, NoRet, NoFig, <<>>)]

\* s.number = b, as main does before the runs
set_number(self, b) ==
    [self |-> [self EXCEPT !.number = b],
     eff |-> Effect("set_number", "none", NoCall, NoRet, NoFig, <<>>)]

(***************************************************************************)
(* What the external solvers can do, drawn from bounded sets.              *)
(***************************************************************************)
Raise == [raised |-> TRUE]

\* the time axis 0, 0.005, 0.01, ... of a series of the given length
TimeAxis(len) == [i \in 1..len |-> (i - 1) * dt]

SeqsUpTo(S, n) == UNION {[1..k -> S] : k \in 1..n}

FockReturn(s) ==
    [raised |-> FALSE, time |-> TimeAxis(Len(s)),
     n0 |-> [i \in 1..Len(s) |-> s[i].n0],
     n0var |-> [i \in 1..Len(s) |-> s[i].v]]

\* the series of each length 1..n whose i-th sample is a[i], alternating a1, a2
Alternating(a1, a2, n) ==
    {[i \in 1..k |-> IF i % 2 = 1 THEN a1 ELSE a2] : k \in 1..n}

\* per timestamp: all atoms in m=0 with no spread, half of them with some,
\* none of them
FockSamplesWide(N) ==
    {[n0 |-> N, v |-> 0], [n0 |-> N \div 2, v |-> 625], [n0 |-> 0, v |-> 1]}

FockOutcomes(N) ==
    {Raise} \cup {FockReturn(s) :
                    s \in Alternating([n0 |-> N, v |-> 0],
                                      [n0 |-> N \div 2, v |-> 625], MaxLen)}

FockOutcomesWide(N) ==
    {Raise} \cup {FockReturn(s) : s \in SeqsUpTo(FockSamplesWide(N), MaxLenFock)}

MeanReturn(s) ==
    [raised |-> FALSE, time |-> TimeAxis(Len(s)),
     mean |-> [i \in 1..Len(s) |-> s[i].m],
     std |-> [i \in 1..Len(s) |-> s[i].s],
     mw |-> [i \in 1..Len(s) |-> 0]]

MeanOutcomes ==
    {Raise} \cup {MeanReturn(s) :
                    s \in Alternating([m |-> Rat(1, 1), s |-> Rat(0, 1)],
                                      [m |-> Rat(1, 2), s |-> Rat(1, 200)], MaxLen)}

ChebyReturn(s) ==
    [raised |-> FALSE, time |-> TimeAxis(Len(s)),
     sum_of_means |-> [i \in 1..Len(s) |-> s[i].a],
     sum_of_meansq |-> [i \in 1..Len(s) |-> s[i].b],
     norm |-> [i \in 1..Len(s) |-> s[i].w]]

\* mean 1/2 with std 1/2, then a second moment below mean^2 (std NaN)
ChebyOutcomes ==
    {Raise} \cup {ChebyReturn(s) :
                    s \in Alternating([a |-> 1, b |-> 1, w |-> 2],
                                      [a |-> 2, b |-> 1, w |-> 1], MaxLen)}

PulseChoices == {<<>>, <<"pulse">>}

(***************************************************************************)
(* State machine.  run_log (ghost) lists the backends in the order of      *)
(* their latest successful run; last is what the latest operation did.     *)
(***************************************************************************)
Logged(log, name, eff) ==
    IF eff.raised = "none"
    THEN Append(SelectSeq(log, LAMBDA x : x # name), name)
    ELSE log

InitWith(P, PL, V) ==
    /\ \E p \in P, pl \in PL, num \in BOOLEAN, verb \in V :
          LET s == Simulation(p, pl, num, verb)
          IN  /\ params = s.params /\ pulses = s.pulses /\ number = s.number
              /\ verbose = s.verbose
              /\ fock = s.fock /\ mean = s.mean /\ cheby = s.cheby
              /\ fock_res = s.fock_res /\ mean_res = s.mean_res
              /\ cheby_res = s.cheby_res
    /\ run_log = <<>>
    /\ last = Effect("init", "none", NoCall, NoRet, NoFig, <<>>)

RunFockWith(outs) ==
    \E out \in outs :
       LET r == run_fock(Self, out)
       IN  Commit(r.self) /\ last' = r.eff /\ run_log' = Logged(run_log, "fock", r.eff)

RunFock == RunFockWith(FockOutcomes(params.N))

RunFockWide == RunFockWith(FockOutcomesWide(params.N))

RunMean ==
    \E out \in MeanOutcomes :
       LET r == run_mean(Self, out)
       IN  Commit(r.self) /\ last' = r.eff /\ run_log' = Logged(run_log, "mean", r.eff)

RunCheby ==
    \E out \in ChebyOutcomes :
       LET r == run_cheby(Self, out)
       IN  Commit(r.self) /\ last' = r.eff /\ run_log' = Logged(run_log, "cheby", r.eff)

Plot ==
    LET r == plot(Self)
    IN  Commit(r.self) /\ last' = r.eff /\ UNCHANGED run_log

Reset ==
    LET r == reset(Self)
    IN  Commit(r.self) /\ last' = r.eff /\ UNCHANGED run_log

SetNumber ==
    \E b \in BOOLEAN :
       LET r == set_number(Self, b)
       IN  Commit(r.self) /\ last' = r.eff /\ UNCHANGED run_log

\* the orchestrator under its default configuration
Init == InitWith({DefaultParams}, PulseChoices, {FALSE})

Next == RunFock \/ RunMean \/ RunCheby \/ Plot \/ Reset \/ SetNumber

Spec == Init /\ [][Next]_vars

\* the Fock normalisation over atom numbers and longer series
AtomNumbers == {1, 200, 5000}

InitFock == InitWith({[DefaultParams EXCEPT !.N = n] : n \in AtomNumbers}, {<<>>}, {FALSE})

NextFock == RunFockWide \/ SetNumber

SpecFock == InitFock /\ [][NextFock]_vars

\* the Chebyshev schedule over total_time (whole milliseconds) and c
Couplings == {0, 24, 30}

InitCheby ==
    InitWith({[DefaultParams EXCEPT !.total_time = 1000 * k, !.c = cc] :
                 k \in 0..MaxTime, cc \in Couplings}, PulseChoices, BOOLEAN)

NextCheby == RunCheby \/ Reset

SpecCheby == InitCheby /\ [][NextCheby]_vars

(***************************************************************************)
(* Properties.                                                             *)
(***************************************************************************)
IsResult(r, name, col) ==
    r.kind = "SimulationResult" /\ r.name = name /\ r.col = col

DrawnLabels == [i \in 1..Len(last.fig.drawn) |-> last.fig.drawn[i].label]

\* the unit convention the flag `number` selects
Selected == IF number THEN "count" ELSE "frac"

\* C1: plot() called while no has-run flag is true prints 'Cannot plot with
\* no simulation' and draws nothing: no figure, no axis label, no legend.
\* (plot() leaves the flags alone, so they are read after the call.)
C1_PlotWithoutResultsDrawsNothing ==
    (last.op = "plot" /\ ~has_result(Self)) =>
        /\ last.stdout = <<"Cannot plot with no simulation">>
        /\ last.fig = NoFig

\* C2: every result plot() draws is in the unit convention that `number`
\* selects at the time of plot(), the one of the y-axis label.  The Coherent
\* result, whose native convention the claim does not fix, is let pass.
C2_DrawnResultsShareSelectedUnit ==
    (last.op = "plot" /\ last.fig.created) =>
        /\ last.fig.ylabel = (IF number THEN "N_{m_F=0}" ELSE "rho_0")
        /\ \A i \in 1..Len(last.fig.drawn) :
              last.fig.drawn[i].unit \in {Selected, "native"}

\* C3: a reset() step leaves all three flags false and changes nothing else:
\* the retained results, params, pulses, number and verbose are as before.
C3_ResetClearsOnlyFlags ==
    [][last'.op = "reset" =>
         /\ ~fock' /\ ~mean' /\ ~cheby'
         /\ fock_res' = fock_res /\ mean_res' = mean_res
         /\ cheby_res' = cheby_res
         /\ params' = params /\ pulses' = pulses
         /\ number' = number /\ verbose' = verbose]_vars

C3_Witness ==
    /\ last.op = "reset"
    /\ IsResult(fock_res, "Fock", "red")
    /\ IsResult(mean_res, "Mean", "blue")
    /\ IsResult(cheby_res, "Coherent", "green")
    /\ ~fock /\ ~mean /\ ~cheby

\* C4: after a successful run_fock the retained result is labelled Fock, red,
\* has the solver's time axis, and at every timestamp: with number false the
\* central value is n0/N and std is sqrt(n0var)/N, with number true they are
\* n0 and sqrt(n0var).  n0 = N with n0var = 0 gives 1 and 0; N = 5000,
\* n0 = [5000,2500,5000], n0var = [0,625,0] gives [1,1/2,1] and [0,1/200,0].
C4_FockNormalization ==
    (last.op = "run_fock" /\ last.raised = "none") =>
        LET out == last.ret
            N   == params.N
            r   == fock_res
        IN  /\ IsResult(r, "Fock", "red")
            /\ r.t = out.time
            /\ Len(r.rho) = Len(out.n0) /\ Len(r.std) = Len(out.n0var)
            /\ \A i \in 1..Len(r.rho) :
                  /\ r.rho[i].d > 0 /\ r.std[i].d > 0 /\ r.std[i].n >= 0
                  /\ IF ~number
                     THEN /\ r.rho[i].n * N = out.n0[i] * r.rho[i].d
                          /\ r.std[i].n * r.std[i].n * N * N
                               = out.n0var[i] * r.std[i].d * r.std[i].d
                     ELSE /\ r.rho[i] = [n |-> out.n0[i], d |-> 1]
                          /\ r.std[i].d = 1
                          /\ r.std[i].n * r.std[i].n = out.n0var[i]
            /\ (~number /\ \A i \in 1..Len(out.n0) : out.n0[i] = N /\ out.n0var[i] = 0)
                  => \A i \in 1..Len(r.rho) :
                        r.rho[i] = [n |-> 1, d |-> 1] /\ r.std[i] = [n |-> 0, d |-> 1]
            /\ (~number /\ N = 5000 /\ out.n0 = <<5000, 2500, 5000>>
                        /\ out.n0var = <<0, 625, 0>>)
                  => /\ r.rho = <<[n |-> 1, d |-> 1], [n |-> 1, d |-> 2], [n |-> 1, d |-> 1]>>
                     /\ r.std = <<[n |-> 0, d |-> 1], [n |-> 1, d |-> 200], [n |-> 0, d |-> 1]>>

C4_Witness ==
    /\ last.op = "run_fock" /\ last.raised = "none" /\ ~number
    /\ params.N = 5000
    /\ last.ret.n0 = <<5000, 2500, 5000>> /\ last.ret.n0var = <<0, 625, 0>>
    /\ fock_res.std[2] = [n |-> 1, d |-> 200]

\* C5: plot() draws exactly the retained results whose flag is true, each
\* once, in the order Fock, Mean, Coherent, whatever the order of the runs;
\* a flag that is false (after reset()) becomes true only by a successful
\* run of its own backend, so a cleared result is not drawn before that.
C5_Drawn ==
    last.op = "plot" =>
        /\ last.raised = "none"
        /\ DrawnLabels = (IF fock THEN <<"Fock">> ELSE <<>>)
                            \o (IF mean THEN <<"Mean">> ELSE <<>>)
                            \o (IF cheby THEN <<"Coherent">> ELSE <<>>)
        /\ \A i \in 1..Len(last.fig.drawn) :
              LET d == last.fig.drawn[i]
                  r == CASE d.label = "Fock" -> fock_res
                         [] d.label = "Mean" -> mean_res
                         [] OTHER -> cheby_res
              IN  d.line = r.rho /\ d.t = r.t /\ d.color = r.col

C5_FlagSetOnlyByOwnRun ==
    /\ (~fock /\ fock') => (last'.op = "run_fock" /\ last'.raised = "none")
    /\ (~mean /\ mean') => (last'.op = "run_mean" /\ last'.raised = "none")
    /\ (~cheby /\ cheby') => (last'.op = "run_cheby" /\ last'.raised = "none")

C5_PlotDrawsFlaggedInFixedOrder == []C5_Drawn /\ [][C5_FlagSetOnlyByOwnRun]_vars

\* main's order of runs: cheby, then fock, then mean
C5_Witness ==
    /\ last.op = "plot"
    /\ run_log = <<"cheby", "fock", "mean">>
    /\ DrawnLabels = <<"Fock", "Mean", "Coherent">>

C7_FailedRunChangesNothing ==
    [][last'.raised = "ComputationError" =>
         /\ last'.op \in {"run_fock", "run_mean", "run_cheby"}
         /\ last'.call.fn # "none"
         /\ fock' = fock /\ mean' = mean /\ cheby' = cheby
         /\ fock_res' = fock_res /\ mean_res' = mean_res
         /\ cheby_res' = cheby_res
         /\ params' = params /\ pulses' = pulses
         /\ number' = number /\ verbose' = verbose]_vars

C7_Witness ==
    /\ last.op = "run_mean" /\ last.raised = "ComputationError"
    /\ fock /\ IsResult(fock_res, "Fock", "red")
    /\ cheby /\ IsResult(cheby_res, "Coherent", "green")
    /\ ~mean

\* C8: a successful run_X sets the X flag and replaces the X result, and
\* leaves the other flags, the other results, params, pulses and number
\* unchanged; so two successful runs of different backends commute.
C8_Frame ==
    /\ (last'.op = "run_fock" /\ last'.raised = "none") =>
          /\ fock' /\ IsResult(fock_res', "Fock", "red")
          /\ fock_res'.t = last'.ret.time
          /\ UNCHANGED <<mean, cheby, mean_res, cheby_res, params, pulses, number>>
    /\ (last'.op = "run_mean" /\ last'.raised = "none") =>
          /\ mean' /\ IsResult(mean_res', "Mean", "blue")
          /\ mean_res'.t = last'.ret.time
          /\ UNCHANGED <<fock, cheby, fock_res, cheby_res, params, pulses, number>>
    /\ (last'.op = "run_cheby" /\ last'.raised = "none") =>
          /\ cheby' /\ IsResult(cheby_res', "Coherent", "green")
          /\ cheby_res'.t = last'.ret.time
          /\ UNCHANGED <<fock, mean, fock_res, mean_res, params, pulses, number>>

\* Two successful runs of different backends commute on the object.  The
\* object is compared in the states that follow a plot(): plot() is always
\* enabled and leaves the object alone, so every reachable object is met.
C8_Commute ==
    last.op = "plot" =>
    /\ \A a \in FockOutcomes(params.N) \ {Raise}, b \in MeanOutcomes \ {Raise} :
          run_mean(run_fock(Self, a).self, b).self
             = run_fock(run_mean(Self, b).self, a).self
    /\ \A a \in FockOutcomes(params.N) \ {Raise}, c \in ChebyOutcomes \ {Raise} :
          run_cheby(run_fock(Self, a).self, c).self
             = run_fock(run_cheby(Self, c).self, a).self
    /\ \A b \in MeanOutcomes \ {Raise}, c \in ChebyOutcomes \ {Raise} :
          run_cheby(run_mean(Self, b).self, c).self
             = run_mean(run_cheby(Self, c).self, b).self

C8_RunWritesOwnSlot == [][C8_Frame]_vars /\ []C8_Commute

C8_Witness ==
    /\ last.op = "run_mean" /\ last.raised = "none"
    /\ run_log = <<"cheby", "fock", "mean">>
    /\ fock /\ mean /\ cheby

\* C9: for every pulse sequence, a run_cheby call whose solver does not fail
\* reaches the solver with all five schedule arguments and ends with the
\* cheby flag true and a result labelled Coherent, green.
C9_ChebyAlwaysReachesSolver ==
    (last.op = "run_cheby" /\ last.raised # "ComputationError") =>
        /\ last.raised = "none"
        /\ last.call.fn = "cheby_sim"
        /\ cheby /\ IsResult(cheby_res, "Coherent", "green")

\* C10: whenever a has-run flag is true its slot holds a SimulationResult
\* with that backend's label and colour.
C10_FlaggedSlotHoldsResult ==
    /\ fock => IsResult(fock_res, "Fock", "red")
    /\ mean => IsResult(mean_res, "Mean", "blue")
    /\ cheby => IsResult(cheby_res, "Coherent", "green")

\* a repeated run_mean has failed while the mean flag is true
C10_Witness ==
    /\ fock /\ mean /\ cheby
    /\ last.op = "run_mean" /\ last.raised = "ComputationError"
    /\ IsResult(mean_res, "Mean", "blue")

====
